---- MODULE Spec2Model ----
(***************************************************************************)
(* Walter: the narrative generator (walter/integrations/llm.py), the      *)
(* dataset inspector and analyzer (walter/utils/gis.py,                    *)
(* walter/commands/describe.py), the multi-format renderer                 *)
(* (walter/utils/text.py), the command line (walter/cli.py) and the        *)
(* GitBook publisher (walter/integrations/gitbook.py).                     *)
(*                                                                         *)
(* Python strings are sequences of one-character strings, so strip,       *)
(* lower, upper, title, join and split are computed character by          *)
(* character.  Python dicts are functions whose DOMAIN is the key set.    *)
(*                                                                         *)
(* Six specifications share the variables: Spec (the manager), SpecText   *)
(* (the renderers), SpecDescribe (the inspector and the describe command), *)
(* SpecBook (the publisher), SpecGui (the dashboard) and SpecAgol (the     *)
(* ArcGIS Online uploader).                                                *)
(***************************************************************************)
EXTENDS Integers, Sequences, FiniteSets, TLC

VARIABLES
    runtime,     \* the model runtime of the process: importable?, list/pull outcome
    mgr,         \* the LLMManager object: construction state and its fields
    calls,       \* backend requests sent so far, in order: "list", "pull", "generate"
    ret,         \* what the last LLMManager method call did and returned
    components,  \* the NarrativeSections mapping handed to the renderer
    rendered,    \* what the last renderer call returned
    described,   \* what the last call into utils/gis.py or commands/describe.py returned
    cli,         \* the last run of a CLI command: what it printed, wrote and exited with
    config,      \* config/gitbook.yml as the publisher finds it
    requests,    \* requests the GitBook API has received so far, in order
    written,     \* files the publisher has written into the source directory
    files,       \* the markdown files of the source directory, in glob order
    pub,         \* what the last GitBookPublisher call did and returned
    session,     \* st.session_state of the dashboard: current_file, current_data
    tmp_files,   \* the temporary files of the dashboard that exist on disk
    page,        \* the last run of the dashboard script: uploader, button, outcome
    caller_tags, \* the tags list a caller of AGOLManager.upload_data holds
    portal       \* the items AGOLManager.upload_data has added, in order

\* The variables of the dashboard and of the ArcGIS Online uploader.
appVars == <<session, tmp_files, page, caller_tags, portal>>

\* The variables of the dataset inspector, the CLI, the publisher, the
\* dashboard and the uploader.
extVars == <<described, cli, config, requests, written, files, pub, appVars>>

vars == <<runtime, mgr, calls, ret, components, rendered, extVars>>

(***************************************************************************)
(* Bounds of the model.                                                    *)
(***************************************************************************)
MaxCalls == 2
MaxSections == 2
MaxPublishes == 2
MaxRuns == 4
MaxUploads == 2

(***************************************************************************)
(* Python str methods.                                                     *)
(***************************************************************************)
LowerCase ==
    <<"a", "b", "c", "d", "e", "f", "g", "h", "i", "j", "k", "l", "m",
      "n", "o", "p", "q", "r", "s", "t", "u", "v", "w", "x", "y", "z">>

UpperCase ==
    <<"A", "B", "C", "D", "E", "F", "G", "H", "I", "J", "K", "L", "M",
      "N", "O", "P", "Q", "R", "S", "T", "U", "V", "W", "X", "Y", "Z">>

Whitespace == {" ", "\n", "\t"}

IsLower(c) == c = "ß" \/ \E i \in 1..26 : LowerCase[i] = c

IsUpper(c) == \E i \in 1..26 : UpperCase[i] = c

IsCased(c) == IsLower(c) \/ IsUpper(c)

\* str.lower() of one character
LowerChar(c) ==
    IF IsUpper(c) THEN LowerCase[CHOOSE i \in 1..26 : UpperCase[i] = c] ELSE c

\* str.upper() of one character: a string, since the upper case of "ß" is "SS"
UpperChar(c) ==
    IF c = "ß" THEN <<"S", "S">>
    ELSE IF IsLower(c) THEN <<UpperCase[CHOOSE i \in 1..26 : LowerCase[i] = c]>>
    ELSE <<c>>

\* the title case of one character: the title case of "ß" is "Ss"
TitleChar(c) ==
    IF c = "ß" THEN <<"S", "s">> ELSE UpperChar(c)

RECURSIVE Concat(_)
\* "".join(parts)
Concat(parts) ==
    IF parts = <<>> THEN <<>> ELSE Head(parts) \o Concat(Tail(parts))

RECURSIVE Join(_, _)
\* sep.join(parts)
Join(sep, parts) ==
    IF parts = <<>> THEN <<>>
    ELSE IF Len(parts) = 1 THEN parts[1]
    ELSE parts[1] \o sep \o Join(sep, Tail(parts))

\* s.lower()
Lower(s) == [i \in 1..Len(s) |-> LowerChar(s[i])]

\* s.upper()
Upper(s) == Concat([i \in 1..Len(s) |-> UpperChar(s[i])])

\* s.title(): a cased character is title-cased after an uncased one (or at the
\* start) and lower-cased after a cased one
Title(s) ==
    Concat([i \in 1..Len(s) |->
        IF i > 1 /\ IsCased(s[i - 1]) THEN <<LowerChar(s[i])>> ELSE TitleChar(s[i])])

\* s.strip()
Strip(s) ==
    IF \A i \in 1..Len(s) : s[i] \in Whitespace THEN <<>>
    ELSE LET lo == CHOOSE i \in 1..Len(s) :
                       s[i] \notin Whitespace /\ \A j \in 1..(i - 1) : s[j] \in Whitespace
             hi == CHOOSE i \in 1..Len(s) :
                       s[i] \notin Whitespace /\ \A j \in (i + 1)..Len(s) : s[j] \in Whitespace
         IN  SubSeq(s, lo, hi)

\* s.replace(old, new) for a one-character old
Replace(s, old, new) ==
    Concat([i \in 1..Len(s) |-> IF s[i] = old THEN new ELSE <<s[i]>>])

\* s.split(sep) for a one-character sep: the pieces between the separators
Split(s, sep) ==
    LET IsSep(i) == s[i] = sep
        cuts == <<0>> \o SelectSeq([i \in 1..Len(s) |-> i], IsSep) \o <<Len(s) + 1>>
    IN  [k \in 1..(Len(cuts) - 1) |-> SubSeq(s, cuts[k] + 1, cuts[k + 1] - 1)]

Digits == <<"0", "1", "2", "3", "4", "5", "6", "7", "8", "9">>

RECURSIVE Str(_)
\* str(n) for a non-negative int, as an f-string formats it
Str(n) ==
    IF n < 10 THEN <<Digits[n + 1]>> ELSE Str(n \div 10) \o <<Digits[(n % 10) + 1]>>

\* d.get(key, default)
Get(d, key, default) == IF key \in DOMAIN d THEN d[key] ELSE default

\* A coordinate reference system as gdf.crs holds it: None, a plain string, or
\* a pyproj CRS object.  authority is what crs.to_authority() returns, the
\* (authority, code) pair or <<>> for None: the lookup found no authority, or
\* it found the CRS has none.
NoneCrs == [kind |-> "none", text |-> <<>>, authority |-> <<>>, is_geographic |-> FALSE]

StrCrs(text) == [kind |-> "str", text |-> text, authority |-> <<>>, is_geographic |-> FALSE]

PyprojCrs(authority, is_geographic) ==
    [kind |-> "pyproj", text |-> <<>>, authority |-> authority, is_geographic |-> is_geographic]

\* The reference systems geopandas hands out (None or a pyproj CRS), and the
\* plain strings only get_crs_info provides for.
PyprojCrsValues ==
    { PyprojCrs(<< <<"E", "P", "S", "G">>, <<"4", "3", "2", "6">> >>, TRUE),
      PyprojCrs(<< <<"E", "P", "S", "G">>, <<"3", "8", "5", "7">> >>, FALSE),
      PyprojCrs(<<>>, TRUE),
      PyprojCrs(<<>>, FALSE) }

StrCrsValues == { StrCrs(<<"e", "p", "s", "g", ":", "2", "7", "7", "0", "0">>), StrCrs(<<"+", "p", "r", "o", "j", "=", "l", "o", "n", "g", "l", "a", "t">>) }

CrsValues == {NoneCrs} \cup PyprojCrsValues \cup StrCrsValues

\* Loaded datasets (a GeoDataFrame): the path it was read from, the feature
\* count, the columns (the geometry column included), the distinct geometry
\* types, gdf.crs, gdf.total_bounds (<<>> for the four NaN of a frame of no
\* features), and the feature areas in the frame's own units and after
\* to_crs("EPSG:3857").  The first is the sample dataset of
\* tests/test_workflow.py.
Datasets ==
    { [name |-> <<"c", "i", "t", "i", "e", "s", ".", "g", "e", "o", "j", "s", "o", "n">>,
       suffix |-> <<".", "g", "e", "o", "j", "s", "o", "n">>,
       n |-> 3,
       columns |-> << <<"n", "a", "m", "e">>, <<"p", "o", "p", "u", "l", "a", "t", "i", "o", "n">>, <<"s", "t", "a", "t", "e">>, <<"g", "e", "o", "m", "e", "t", "r", "y">> >>,
       geom_types |-> << <<"P", "o", "i", "n", "t">> >>,
       crs |-> PyprojCrs(<< <<"E", "P", "S", "G">>, <<"4", "3", "2", "6">> >>, TRUE),
       total_bounds |-> <<-118, 34, -74, 41>>,
       area |-> <<0, 0, 0>>,
       area_3857 |-> <<0, 0, 0>>],
      [name |-> <<"a", ".", "s", "h", "p">>,
       suffix |-> <<".", "s", "h", "p">>,
       n |-> 12,
       columns |-> << <<"z", "o", "n", "e">>, <<"g", "e", "o", "m", "e", "t", "r", "y">> >>,
       geom_types |-> << <<"P", "o", "l", "y", "g", "o", "n">>, <<"M", "u", "l", "t", "i", "P", "o", "l", "y", "g", "o", "n">> >>,
       crs |-> PyprojCrs(<< <<"E", "P", "S", "G">>, <<"3", "8", "5", "7">> >>, FALSE),
       total_bounds |-> <<0, -5, 40, 30>>,
       area |-> <<1, 2, 3, 4, 5, 6, 7, 8, 9, 10, 11, 12>>,
       area_3857 |-> <<2, 3, 4, 5, 6, 7, 8, 9, 10, 11, 12, 13>>],
      [name |-> <<"e", ".", "s", "h", "p">>,
       suffix |-> <<".", "s", "h", "p">>,
       n |-> 0,
       columns |-> << <<"i", "d">>, <<"g", "e", "o", "m", "e", "t", "r", "y">> >>,
       geom_types |-> << >>,
       crs |-> PyprojCrs(<< <<"E", "P", "S", "G">>, <<"4", "3", "2", "6">> >>, TRUE),
       total_bounds |-> <<>>,
       area |-> <<>>,
       area_3857 |-> <<>>] }

\* gdf.crs = crs
WithCrs(gdf, crs) == [gdf EXCEPT !.crs = crs]

\* The frames gpd.read_file can return (geopandas >= 0.14 of setup.py keeps
\* None or a pyproj CRS), and with them the frames of a plain-string CRS.
ReadableFrames == {WithCrs(gdf, crs) : gdf \in Datasets, crs \in {NoneCrs} \cup PyprojCrsValues}

GeoFrames == {WithCrs(gdf, crs) : gdf \in Datasets, crs \in CrsValues}

(***************************************************************************)
(* walter/utils/gis.py.                                                    *)
(***************************************************************************)
get_crs_info_undefined_custom(gdf) ==
    LET crs == gdf.crs
    IN  IF crs.kind = "none" \/ crs.authority = <<>>
        THEN <<"u", "n", "d", "e", "f", "i", "n", "e", "d">>
        ELSE IF crs.kind = "str"
        THEN crs.text
        ELSE crs.authority[1] \o <<":">> \o crs.authority[2]

\* get_crs_info(gdf): "undefined" for None, the string itself for a str, and
\* for a CRS object to_authority()'s pair or "Custom" and "Unknown" when it
\* returns None.
get_crs_info(gdf) ==
    LET crs == gdf.crs
        auth_name == IF crs.authority # <<>> THEN crs.authority[1] ELSE <<"C", "u", "s", "t", "o", "m">>
        auth_code == IF crs.authority # <<>> THEN crs.authority[2] ELSE <<"U", "n", "k", "n", "o", "w", "n">>
    IN  IF crs.kind = "none"
        THEN <<"u", "n", "d", "e", "f", "i", "n", "e", "d">>
        ELSE IF crs.kind = "str"
        THEN crs.text
        ELSE auth_name \o <<":">> \o auth_code

RECURSIVE Sum(_)
\* Series.sum(): 0 for a series of no values
Sum(s) == IF s = <<>> THEN 0 ELSE s[1] + Sum(Tail(s))

\* A float: not-a-number, or the fraction num / den.
NaN == [nan |-> TRUE, num |-> 0, den |-> 1]

Float(num, den) == [nan |-> FALSE, num |-> num, den |-> den]

\* Series.mean(): NaN for a series of no values
Mean(s) == IF s = <<>> THEN NaN ELSE Float(Sum(s), Len(s))

\* f"{x:.2f}" for a float of integral value
Format2f(x) == (IF x < 0 THEN <<"-">> ELSE <<>>) \o Str(IF x < 0 THEN -x ELSE x) \o <<".", "0", "0">>

\* get_geometry_stats(gdf) for a frame whose crs is None or a CRS object: the
\* bounding box text, and the areas summed and averaged after a reprojection
\* to EPSG:3857 when the CRS is geographic.  total_bounds is an ndarray and
\* has no attribute 'area', so bbox_area is None.
get_geometry_stats(gdf) ==
    LET b == gdf.total_bounds
        geographic == gdf.crs.kind # "none" /\ gdf.crs.is_geographic
        area == IF geographic THEN gdf.area_3857 ELSE gdf.area
    IN  [bbox |-> IF b = <<>>
                  THEN <<"(", "n", "a", "n", ",", " ", "n", "a", "n", ",", " ", "n", "a", "n", ",", " ", "n", "a", "n", ")">>
                  ELSE <<"(">> \o Format2f(b[1]) \o <<",", " ">> \o Format2f(b[2]) \o <<",", " ">>
                       \o Format2f(b[3]) \o <<",", " ">> \o Format2f(b[4]) \o <<")">>,
         total_area |-> Sum(area),
         mean_area |-> Mean(area),
         bbox_area |-> "None",
         area_unit |-> IF geographic THEN <<"s", "q", "u", "a", "r", "e", " ", "m", "e", "t", "e", "r", "s">> ELSE <<"s", "q", "u", "a", "r", "e", " ", "u", "n", "i", "t", "s">>]

\* walter/walter/utils/gis.py get_geometry_stats(gdf), the copy of the nested
\* package: the areas are summed and averaged on the frame as given whatever
\* its CRS, bbox_area is the area of the bounding box (NaN for the NaN bounds
\* of a frame of no features), and there is no area_unit key.
nested_get_geometry_stats(gdf) ==
    LET b == gdf.total_bounds
    IN  [bbox |-> IF b = <<>>
                  THEN <<"(", "n", "a", "n", ",", " ", "n", "a", "n", ",", " ", "n", "a", "n", ",", " ", "n", "a", "n", ")">>
                  ELSE <<"(">> \o Format2f(b[1]) \o <<",", " ">> \o Format2f(b[2]) \o <<",", " ">>
                       \o Format2f(b[3]) \o <<",", " ">> \o Format2f(b[4]) \o <<")">>,
         total_area |-> Sum(gdf.area),
         mean_area |-> Mean(gdf.area),
         bbox_area |-> IF b = <<>> THEN NaN ELSE Float((b[3] - b[1]) * (b[4] - b[2]), 1)]

(***************************************************************************)
(* walter/commands/describe.py: the analysis record.                      *)
(***************************************************************************)
\* What a path holds: nothing, a file no driver can parse, or a dataset.
FileOf(gdf) == [kind |-> "dataset", gdf |-> gdf]

Files ==
    {FileOf(gdf) : gdf \in ReadableFrames}
    \cup {[kind |-> kind, gdf |-> gdf] : kind \in {"missing", "unparseable"},
                                         gdf \in {d \in Datasets : d.n = 3}}

\* gpd.read_file(file_path): the frame, or the I/O engine's own exception
\* (pyogrio's DataSourceError) for a missing path and for an unparseable file.
read_file(file_path) ==
    IF file_path.kind = "dataset"
    THEN [kind |-> "value", value |-> file_path.gdf]
    ELSE [kind |-> "raise", exc |-> "DataSourceError"]

analyze_dataset_wrapping(file_path) ==
    LET r == read_file(file_path)
        gdf == r.value
    IN  IF r.kind = "raise"
        THEN [kind |-> "raise", exc |-> "DatasetReadError"]
        ELSE IF gdf.n = 0
        THEN [kind |-> "raise", exc |-> "IndexError"]
        ELSE [kind |-> "value",
              value |-> [filename |-> gdf.name,
                         format |-> gdf.suffix,
                         feature_count |-> gdf.n,
                         columns |-> gdf.columns,
                         crs |-> get_crs_info(gdf),
                         geometry_type |-> gdf.geom_types,
                         geometry_stats |-> get_geometry_stats(gdf),
                         attribute_sample |-> "row-with-geometry-object"]]

\* analyze_dataset(file_path): read_file is not in a try block.  The sample
\* row gdf.head(1).to_dict(orient="records")[0] is an IndexError on a dataset
\* of no features; otherwise it holds the first row, its geometry object
\* included.
analyze_dataset(file_path) ==
    LET r == read_file(file_path)
        gdf == r.value
    IN  IF r.kind = "raise"
        THEN r
        ELSE IF gdf.n = 0
        THEN [kind |-> "raise", exc |-> "IndexError"]
        ELSE [kind |-> "value",
              value |-> [filename |-> gdf.name,
                         format |-> gdf.suffix,
                         feature_count |-> gdf.n,
                         columns |-> gdf.columns,
                         crs |-> get_crs_info(gdf),
                         geometry_type |-> gdf.geom_types,
                         geometry_stats |-> get_geometry_stats(gdf),
                         attribute_sample |-> "row-with-geometry-object"]]

\* The stats dict the dashboard's "Detect Patterns" button hands to
\* explain_analysis.
render_llm_analysis_stats(gdf) ==
    [feature_count |-> gdf.n,
     attributes |-> gdf.columns,
     geometry_types |-> gdf.geom_types,
     numeric_stats |-> "describe"]

\* The data dict the dashboard's "Get Recommendations" button hands to
\* generate_description.
render_llm_analysis_data(gdf) ==
    [columns |-> gdf.columns,
     geometry_type |-> gdf.geom_types,
     feature_count |-> gdf.n]

\* json.dumps(d) succeeds: every value is a str, a number, a list or a dict of
\* those.  The attribute_sample of an analysis record holds a geometry object.
JsonSerializable(d) == "attribute_sample" \notin DOMAIN d

(***************************************************************************)
(* walter/integrations/llm.py: LLMManager.                                 *)
(***************************************************************************)
DEFAULT_MODEL == "phi"

\* The model runtime as construction finds it.
Runtimes ==
    [importable : BOOLEAN,
     list : {"ok", "raise"},
     pull : {"ok", "raise"},
     models : {{}, {DEFAULT_MODEL}}]

\* A reply of ollama.generate: a response text, an exception, a dict without
\* the 'response' key, or a dict whose 'response' is not a string.
ReplyTexts ==
    { <<" ", "U", "r", "b", "a", "n", " ", "P", "l", "a", "n", ",", " ", "g", "i", "s", " ",
        ",", "g", "i", "s", ",", " ", "G", "I", "S", ".", " ", "\n">> }

Replies ==
    [kind : {"ok"}, text : ReplyTexts]
    \cup [kind : {"raise", "nokey", "nonstr"}, text : {<<>>}]

NoReply == [kind |-> "none", text |-> <<>>]

\* What the body of the try block raises on a reply: the backend's own error,
\* response['response'] on a dict without the key, .strip() / .split() on a
\* value that is not a string.
TryError(reply) ==
    CASE reply.kind = "raise" -> "ResponseError"
      [] reply.kind = "nokey" -> "KeyError"
      [] reply.kind = "nonstr" -> "AttributeError"
      [] OTHER -> "none"

ExceptConnectionOnly(exc) == exc = "ResponseError"

\* except Exception as e
ExceptException(exc) ==
    exc \in {"ResponseError", "KeyError", "AttributeError", "TypeError", "IndexError"}

_generate_fallback_description(data) ==
    LET feature_count == IF "feature_count" \in DOMAIN data
                         THEN Str(data.feature_count)
                         ELSE <<"U", "n", "k", "n", "o", "w", "n">>
        geometry_type == Join(<<",", " ">>,
                              Get(data, "geometry_type", << <<"U", "n", "k", "n", "o", "w", "n">> >>))
        columns == Join(<<",", " ">>, Get(data, "columns", << >>))
    IN  Strip(<<"\n", " ", " ", " ", " ", " ", " ", " ", " ">>
              \o <<"D", "a", "t", "a", "s", "e", "t", " ", "c", "o", "n", "t", "a", "i", "n", "s", " ">>
              \o feature_count
              \o <<" ", "f", "e", "a", "t", "u", "r", "e", "s", " ", "o", "f", " ", "t", "y", "p", "e", " ">>
              \o geometry_type \o <<".">>
              \o <<"\n", " ", " ", " ", " ", " ", " ", " ", " ">>
              \o <<"A", "v", "a", "i", "l", "a", "b", "l", "e", " ", "a", "t", "t", "r", "i", "b", "u", "t", "e", "s", ":", " ">>
              \o columns \o <<".">>
              \o <<"\n", " ", " ", " ", " ", " ", " ", " ", " ">>)

_generate_fallback_tags_truncated(description, count) ==
    SubSeq(<< <<"g", "i", "s">>,
              <<"s", "p", "a", "t", "i", "a", "l", "-", "d", "a", "t", "a">>,
              <<"g", "e", "o", "s", "p", "a", "t", "i", "a", "l">>,
              <<"v", "e", "c", "t", "o", "r", "-", "d", "a", "t", "a">>,
              <<"a", "n", "a", "l", "y", "s", "i", "s">> >>, 1, IF count < 5 THEN count ELSE 5)

\* The method takes the description only; count is the caller's, carried here
\* so that the method's disregard of it is explicit.
_generate_fallback_tags(description, count) ==
    << <<"g", "i", "s">>,
       <<"s", "p", "a", "t", "i", "a", "l", "-", "d", "a", "t", "a">>,
       <<"g", "e", "o", "s", "p", "a", "t", "i", "a", "l">>,
       <<"v", "e", "c", "t", "o", "r", "-", "d", "a", "t", "a">>,
       <<"a", "n", "a", "l", "y", "s", "i", "s">> >>

_generate_fallback_analysis_record_keys(results) ==
    _generate_fallback_description(results)

_generate_fallback_analysis(results) ==
    LET feature_count == IF "feature_count" \in DOMAIN results
                         THEN Str(results.feature_count)
                         ELSE <<"U", "n", "k", "n", "o", "w", "n">>
        geometry_types == Join(<<",", " ">>,
                               Get(results, "geometry_types", << <<"U", "n", "k", "n", "o", "w", "n">> >>))
        attributes == Join(<<",", " ">>, Get(results, "attributes", << >>))
    IN  Strip(<<"\n", " ", " ", " ", " ", " ", " ", " ", " ">>
              \o <<"A", "n", "a", "l", "y", "s", "i", "s", " ", "R", "e", "s", "u", "l", "t", "s", " ",
                   "S", "u", "m", "m", "a", "r", "y", ":">>
              \o <<"\n", " ", " ", " ", " ", " ", " ", " ", " ">>
              \o <<"-", " ", "F", "e", "a", "t", "u", "r", "e", " ", "C", "o", "u", "n", "t", ":", " ">>
              \o feature_count
              \o <<"\n", " ", " ", " ", " ", " ", " ", " ", " ">>
              \o <<"-", " ", "G", "e", "o", "m", "e", "t", "r", "y", " ", "T", "y", "p", "e", "s", ":", " ">>
              \o geometry_types
              \o <<"\n", " ", " ", " ", " ", " ", " ", " ", " ">>
              \o <<"-", " ", "A", "v", "a", "i", "l", "a", "b", "l", "e", " ", "A", "t", "t", "r", "i", "b", "u", "t", "e", "s", ":", " ">>
              \o attributes
              \o <<"\n", " ", " ", " ", " ", " ", " ", " ", " ">>)

\* _ensure_model as __init__ calls it: the new field values, the requests sent
\* and the models the runtime then holds.
_ensure_model(self, rt) ==
    IF ~self.llm_available
    THEN [self |-> self, sent |-> <<>>, models |-> rt.models]
    ELSE IF rt.list = "raise"
    THEN [self |-> [self EXCEPT !.llm_available = FALSE],
          sent |-> <<"list">>, models |-> rt.models]
    ELSE IF self.model \in rt.models
    THEN [self |-> self, sent |-> <<"list">>, models |-> rt.models]
    ELSE IF rt.pull = "raise"
    THEN [self |-> [self EXCEPT !.llm_available = FALSE],
          sent |-> <<"list", "pull">>, models |-> rt.models]
    ELSE [self |-> self, sent |-> <<"list", "pull">>,
          models |-> rt.models \cup {self.model}]

NoManager ==
    [state |-> "none", model |-> DEFAULT_MODEL, require_llm |-> FALSE,
     llm_available |-> FALSE, ollama |-> FALSE]

NoCall ==
    [op |-> "none", input |-> <<>>, count |-> 0, reply |-> NoReply,
     kind |-> "none", value |-> <<>>, exc |-> "none", sent |-> 0]

Returned(op, input, count, reply, value, sent) ==
    [op |-> op, input |-> input, count |-> count, reply |-> reply,
     kind |-> "value", value |-> value, exc |-> "none", sent |-> sent]

Raised(op, input, count, reply, exc, sent) ==
    [op |-> op, input |-> input, count |-> count, reply |-> reply,
     kind |-> "raise", value |-> <<>>, exc |-> exc, sent |-> sent]

LLMManager_init_strict(model, require_llm) ==
    /\ mgr.state = "none"
    /\ LET self == [state |-> "ready", model |-> model, require_llm |-> require_llm,
                    llm_available |-> FALSE, ollama |-> FALSE]
       IN  IF runtime.importable
           THEN LET e == _ensure_model([self EXCEPT !.ollama = TRUE], runtime)
                IN  /\ mgr' = [e.self EXCEPT !.llm_available = TRUE]
                    /\ calls' = calls \o e.sent
                    /\ runtime' = [runtime EXCEPT !.models = e.models]
           ELSE /\ mgr' = [self EXCEPT !.state = "raised"]
                /\ UNCHANGED <<calls, runtime>>
    /\ UNCHANGED <<ret, components, rendered, extVars>>

\* LLMManager(model, require_llm): llm_available is False, then the import,
\* _ensure_model() and llm_available = True; an ImportError is raised again
\* when require_llm and otherwise leaves ollama None.
LLMManager_init(model, require_llm) ==
    /\ mgr.state = "none"
    /\ LET self == [state |-> "ready", model |-> model, require_llm |-> require_llm,
                    llm_available |-> FALSE, ollama |-> FALSE]
       IN  IF runtime.importable
           THEN LET e == _ensure_model([self EXCEPT !.ollama = TRUE], runtime)
                IN  /\ mgr' = [e.self EXCEPT !.llm_available = TRUE]
                    /\ calls' = calls \o e.sent
                    /\ runtime' = [runtime EXCEPT !.models = e.models]
           ELSE /\ mgr' = IF require_llm THEN [self EXCEPT !.state = "raised"] ELSE self
                /\ UNCHANGED <<calls, runtime>>
    /\ UNCHANGED <<ret, components, rendered, extVars>>

\* The shared shape of the three methods after the availability test: the
\* request is sent, and the try block returns parse(text) or, on an exception
\* the except clause catches, the fallback.
Generate(op, input, count, reply, parsed, fallback) ==
    /\ Len(calls) < MaxCalls
    /\ calls' = Append(calls, "generate")
    /\ ret' = IF TryError(reply) = "none"
              THEN Returned(op, input, count, reply, parsed, 1)
              ELSE IF ExceptException(TryError(reply))
              THEN Returned(op, input, count, reply, fallback, 1)
              ELSE Raised(op, input, count, reply, TryError(reply), 1)

generate_description_latching(data, reply) ==
    /\ mgr.state = "ready"
    /\ IF ~mgr.llm_available
       THEN /\ reply = NoReply
            /\ ret' = Returned("generate_description", data, 0, NoReply,
                               _generate_fallback_description(data), 0)
            /\ UNCHANGED <<calls, mgr>>
       ELSE /\ reply \in Replies
            /\ Generate("generate_description", data, 0, reply,
                        Strip(reply.text), _generate_fallback_description(data))
            /\ mgr' = [mgr EXCEPT !.llm_available = (TryError(reply) = "none")]
    /\ UNCHANGED <<runtime, components, rendered, extVars>>

generate_description(data, reply) ==
    /\ mgr.state = "ready"
    /\ IF ~mgr.llm_available
       THEN /\ reply = NoReply
            /\ ret' = Returned("generate_description", data, 0, NoReply,
                               _generate_fallback_description(data), 0)
            /\ UNCHANGED calls
       ELSE /\ reply \in Replies
            /\ Generate("generate_description", data, 0, reply,
                        Strip(reply.text), _generate_fallback_description(data))
    /\ UNCHANGED <<runtime, mgr, components, rendered, extVars>>

CleanTags_untruncated(text, count) ==
    LET pieces == Split(text, ",")
    IN  [i \in 1..Len(pieces) |-> Replace(Lower(Strip(pieces[i])), " ", <<"-">>)]

CleanTags_deduplicated(text, count) ==
    LET pieces == Split(text, ",")
        cleaned == [i \in 1..Len(pieces) |-> Replace(Lower(Strip(pieces[i])), " ", <<"-">>)]
        IsFirst(i) == \A j \in 1..(i - 1) : cleaned[j] # cleaned[i]
        kept == SelectSeq([i \in 1..Len(pieces) |-> i], IsFirst)
        tags == [k \in 1..Len(kept) |-> cleaned[kept[k]]]
    IN  SubSeq(tags, 1, IF count < Len(tags) THEN count ELSE Len(tags))

\* tags[:count] of the cleaned pieces of the response
CleanTags(text, count) ==
    LET pieces == Split(text, ",")
        tags == [i \in 1..Len(pieces) |-> Replace(Lower(Strip(pieces[i])), " ", <<"-">>)]
    IN  SubSeq(tags, 1, IF count < Len(tags) THEN count ELSE Len(tags))

suggest_tags(description, count, reply) ==
    /\ mgr.state = "ready"
    /\ IF ~mgr.llm_available
       THEN /\ reply = NoReply
            /\ ret' = Returned("suggest_tags", description, count, NoReply,
                               _generate_fallback_tags(description, count), 0)
            /\ UNCHANGED calls
       ELSE /\ reply \in Replies
            /\ Generate("suggest_tags", description, count, reply,
                        CleanTags(reply.text, count),
                        _generate_fallback_tags(description, count))
    /\ UNCHANGED <<runtime, mgr, components, rendered, extVars>>

explain_analysis_description_fallback(analysis_results, reply) ==
    /\ mgr.state = "ready"
    /\ IF ~mgr.llm_available
       THEN /\ reply = NoReply
            /\ ret' = Returned("explain_analysis", analysis_results, 0, NoReply,
                               _generate_fallback_description(analysis_results), 0)
            /\ UNCHANGED calls
       ELSE IF ~JsonSerializable(analysis_results)
       THEN /\ reply = NoReply
            /\ ret' = Raised("explain_analysis", analysis_results, 0, NoReply,
                             "TypeError", 0)
            /\ UNCHANGED calls
       ELSE /\ reply \in Replies
            /\ Generate("explain_analysis", analysis_results, 0, reply,
                        Strip(reply.text), _generate_fallback_analysis(analysis_results))
    /\ UNCHANGED <<runtime, mgr, components, rendered, extVars>>

\* The prompt is built before the try block: json.dumps(analysis_results)
\* raises TypeError to the caller when a value is not serializable.
explain_analysis(analysis_results, reply) ==
    /\ mgr.state = "ready"
    /\ IF ~mgr.llm_available
       THEN /\ reply = NoReply
            /\ ret' = Returned("explain_analysis", analysis_results, 0, NoReply,
                               _generate_fallback_analysis(analysis_results), 0)
            /\ UNCHANGED calls
       ELSE IF ~JsonSerializable(analysis_results)
       THEN /\ reply = NoReply
            /\ ret' = Raised("explain_analysis", analysis_results, 0, NoReply,
                             "TypeError", 0)
            /\ UNCHANGED calls
       ELSE /\ reply \in Replies
            /\ Generate("explain_analysis", analysis_results, 0, reply,
                        Strip(reply.text), _generate_fallback_analysis(analysis_results))
    /\ UNCHANGED <<runtime, mgr, components, rendered, extVars>>

(***************************************************************************)
(* walter/utils/text.py: the renderers.  A components dict is the sequence *)
(* of its items in insertion order, its titles distinct.                   *)
(***************************************************************************)
\* components[title] = content: a new key is appended, a held key keeps its
\* place and takes the new value.
SetItem(d, title, content) ==
    IF \E i \in 1..Len(d) : d[i].title = title
    THEN [i \in 1..Len(d) |->
             IF d[i].title = title THEN [title |-> title, content |-> content] ELSE d[i]]
    ELSE Append(d, [title |-> title, content |-> content])

format_markdown(d) ==
    LET sections == [i \in 1..Len(d) |->
                        <<"#", "#", "#", " ">> \o Title(d[i].title) \o <<"\n", "\n">>
                        \o d[i].content \o <<"\n">>]
    IN  Join(<<"\n">>, sections)

format_html_skipping_first(d) ==
    LET sections == [i \in 1..Len(d) |->
                        <<"<", "h", "3", ">">> \o Title(d[i].title)
                        \o <<"<", "/", "h", "3", ">", "\n", "<", "p", ">">>
                        \o d[i].content \o <<"<", "/", "p", ">">>]
    IN  Join(<<"\n">>,
             << <<"<", "d", "i", "v", " ", "c", "l", "a", "s", "s", "=", "'", "w", "a", "l", "t", "e", "r", "-", "o", "u", "t", "p", "u", "t", "'", ">">> >>
             \o SubSeq(sections, 2, Len(sections))
             \o << <<"<", "/", "d", "i", "v", ">">> >>)

format_html(d) ==
    LET sections == [i \in 1..Len(d) |->
                        <<"<", "h", "3", ">">> \o Title(d[i].title)
                        \o <<"<", "/", "h", "3", ">", "\n", "<", "p", ">">>
                        \o d[i].content \o <<"<", "/", "p", ">">>]
    IN  Join(<<"\n">>,
             << <<"<", "d", "i", "v", " ", "c", "l", "a", "s", "s", "=", "'", "w", "a", "l", "t", "e", "r", "-", "o", "u", "t", "p", "u", "t", "'", ">">> >>
             \o sections
             \o << <<"<", "/", "d", "i", "v", ">">> >>)

format_text(d) ==
    LET sections == [i \in 1..Len(d) |->
                        Upper(d[i].title) \o <<"\n">>
                        \o [k \in 1..Len(d[i].title) |-> "="] \o <<"\n">>
                        \o d[i].content \o <<"\n">>]
    IN  Join(<<"\n">>, sections)

format_output_case_sensitive(d, format) ==
    CASE format = <<"m", "a", "r", "k", "d", "o", "w", "n">> -> format_markdown(d)
      [] format = <<"h", "t", "m", "l">> -> format_html(d)
      [] format = <<"t", "e", "x", "t">> -> format_text(d)
      [] OTHER -> format_text(d)

\* formatters.get(format.lower(), format_text)(components)
format_output(d, format) ==
    CASE Lower(format) = <<"m", "a", "r", "k", "d", "o", "w", "n">> -> format_markdown(d)
      [] Lower(format) = <<"h", "t", "m", "l">> -> format_html(d)
      [] Lower(format) = <<"t", "e", "x", "t">> -> format_text(d)
      [] OTHER -> format_text(d)

(***************************************************************************)
(* walter/commands/describe.py: the description of a dataset.              *)
(***************************************************************************)
\* commands/describe.py generate_description(file_path, format, include_stats):
\* the analysis, then the components dict and format_output.  An exception of
\* analyze_dataset passes through.
describe_generate_description(file_path, format, include_stats) ==
    LET a == analyze_dataset(file_path)
        info == a.value
        stats == info.geometry_stats
        overview == <<"T", "h", "i", "s", " ", "d", "a", "t", "a", "s", "e", "t", " ", "(">> \o info.filename \o <<")", " ", "c", "o", "n", "t", "a", "i", "n", "s", " ">>
                    \o Str(info.feature_count) \o <<" ">>
                    \o Lower(Join(<<",", " ">>, info.geometry_type)) \o <<" ", "f", "e", "a", "t", "u", "r", "e", "s", ".">>
        spatial == <<"T", "h", "e", " ", "d", "a", "t", "a", " ", "u", "s", "e", "s", " ", "t", "h", "e", " ">> \o info.crs \o <<" ", "c", "o", "o", "r", "d", "i", "n", "a", "t", "e", " ", "s", "y", "s", "t", "e", "m", ".">>
        attributes == <<"A", "v", "a", "i", "l", "a", "b", "l", "e", " ", "a", "t", "t", "r", "i", "b", "u", "t", "e", "s", " ", "i", "n", "c", "l", "u", "d", "e", ":", " ">> \o Join(<<",", " ">>, info.columns) \o <<".">>
        statistics == <<"T", "h", "e", " ", "f", "e", "a", "t", "u", "r", "e", "s", " ", "c", "o", "v", "e", "r", " ", "a", "n", " ", "a", "r", "e", "a", " ", "o", "f", " ">> \o Format2f(stats.total_area)
                      \o <<" ">> \o stats.area_unit \o <<",", " ", "w", "i", "t", "h", " ", "a", " ", "b", "o", "u", "n", "d", "i", "n", "g", " ", "b", "o", "x", " ", "e", "x", "t", "e", "n", "t", " ", "o", "f", " ">>
                      \o stats.bbox \o <<".">>
        base == SetItem(SetItem(SetItem(<<>>, <<"o", "v", "e", "r", "v", "i", "e", "w">>, overview),
                                <<"s", "p", "a", "t", "i", "a", "l">>, spatial),
                        <<"a", "t", "t", "r", "i", "b", "u", "t", "e", "s">>, attributes)
        components_ == IF include_stats THEN SetItem(base, <<"s", "t", "a", "t", "i", "s", "t", "i", "c", "s">>, statistics) ELSE base
    IN  IF a.kind = "raise"
        THEN a
        ELSE [kind |-> "value", value |-> format_output(components_, format)]

(***************************************************************************)
(* The inspector, the CLI and the publisher before any call.               *)
(***************************************************************************)
NoDescribed ==
    [op |-> "none", input |-> <<>>, format |-> <<>>, include_stats |-> FALSE,
     kind |-> "none", value |-> <<>>, exc |-> "none"]

NoCli ==
    [command |-> "none", core |-> "none", exc |-> "none", printed |-> "nothing",
     traceback |-> FALSE, saved |-> FALSE, exit_code |-> 0]

NoConfigFile == [exists |-> FALSE, mapping |-> FALSE, default_space |-> ""]

NoPub ==
    [op |-> "none", n |-> 0, arg_space |-> "", page_id |-> "", source_dir |-> <<>>,
     rejects |-> {}, kind |-> "none", exc |-> "none", value |-> <<>>, sent |-> <<>>,
     wrote |-> FALSE]

\* The dashboard before its script has run: st.session_state holds no key,
\* no temporary file exists, the uploader is empty.  current_file and
\* current_data are <<>> for None and a one-element tuple otherwise.
NoSession == [initialised |-> FALSE, current_file |-> <<>>, current_data |-> <<>>]

NoAnalysis == [button |-> "none", read |-> FALSE, existed |-> FALSE, kind |-> "none",
               exc |-> "none"]

NoPage == [runs |-> 0, uploaded |-> <<>>, loaded |-> "none", analysis |-> NoAnalysis]

AppIdle ==
    /\ session = NoSession
    /\ tmp_files = {}
    /\ page = NoPage
    /\ caller_tags = <<>>
    /\ portal = <<>>

ExtIdle ==
    /\ described = NoDescribed
    /\ cli = NoCli
    /\ config = NoConfigFile
    /\ requests = <<>>
    /\ written = {}
    /\ files = <<>>
    /\ pub = NoPub
    /\ AppIdle

(***************************************************************************)
(* The narrative generator: one manager, constructed once, then called.   *)
(***************************************************************************)
Models == {DEFAULT_MODEL, "mistral"}

\* The dicts the callers of the repository hand to the manager, the record of
\* the three-point scenario, and a dict that holds none of the keys read.
DataInputs ==
    {analyze_dataset(FileOf(d)).value : d \in {d \in Datasets : d.n = 3}}
    \cup {render_llm_analysis_stats(d) : d \in {d \in Datasets : d.n # 3}}
    \cup {render_llm_analysis_data(d) : d \in {d \in Datasets : d.n = 12}}
    \cup {[feature_count |-> 3,
           geometry_type |-> << <<"p", "o", "i", "n", "t">> >>,
           columns |-> << <<"n", "a", "m", "e">>,
                          <<"p", "o", "p", "u", "l", "a", "t", "i", "o", "n">>,
                          <<"s", "t", "a", "t", "e">> >>],
          [filename |-> <<"a", ".", "s", "h", "p">>]}

Descriptions == {<<"c", "i", "t", "i", "e", "s">>, <<"r", "o", "a", "d", "s", ".">>}

Counts == {0, 2, 5}

AllReplies == Replies \cup {NoReply}

Init ==
    /\ runtime \in Runtimes
    /\ mgr = NoManager
    /\ calls = <<>>
    /\ ret = NoCall
    /\ components = <<>>
    /\ rendered = [fn |-> "none", format |-> <<>>, out |-> <<>>]
    /\ ExtIdle

Next ==
    \/ \E model \in Models, require_llm \in BOOLEAN : LLMManager_init(model, require_llm)
    \/ \E data \in DataInputs, reply \in AllReplies : generate_description(data, reply)
    \/ \E description \in Descriptions, count \in Counts, reply \in AllReplies :
           suggest_tags(description, count, reply)
    \/ \E results \in DataInputs, reply \in AllReplies : explain_analysis(results, reply)

Spec == Init /\ [][Next]_vars

(***************************************************************************)
(* Properties of the narrative generator.                                  *)
(***************************************************************************)
\* part in s, for strings
Contains(s, part) ==
    \E i \in 1..(Len(s) - Len(part) + 1) : SubSeq(s, i, i + Len(part) - 1) = part

StartsWith(s, prefix) ==
    Len(s) >= Len(prefix) /\ SubSeq(s, 1, Len(prefix)) = prefix

Methods == {"generate_description", "suggest_tags", "explain_analysis"}

\* The value the method's fallback gives for the input of the last call.
FallbackOfLastCall ==
    CASE ret.op = "generate_description" -> _generate_fallback_description(ret.input)
      [] ret.op = "suggest_tags" -> _generate_fallback_tags(ret.input, ret.count)
      [] ret.op = "explain_analysis" -> _generate_fallback_analysis(ret.input)

\* C1: on a manager whose llm_available is true, a method whose generate
\* request raised or came back malformed returns the value of its fallback for
\* the same input, and raises nothing.
C1_FailedGenerateFallsBack ==
    (/\ ret.op \in Methods
     /\ mgr.llm_available
     /\ ret.sent = 1
     /\ ret.reply.kind \in {"raise", "nokey", "nonstr"})
    => (ret.kind = "value" /\ ret.value = FallbackOfLastCall)

C1_Witness ==
    /\ mgr.llm_available
    /\ ret.op = "suggest_tags"
    /\ ret.reply.kind = "nokey"
    /\ ret.sent = 1
    /\ ret.kind = "value"

\* The probe of construction fails on this runtime: listing raises, or the
\* model is not listed and pulling it raises.
ProbeFails ==
    \/ runtime.list = "raise"
    \/ (mgr.model \notin runtime.models /\ runtime.pull = "raise")

\* C2: a manager constructed on a runtime whose model listing or pull raises
\* has llm_available false, and every later call takes the fallback path
\* (sends no request).
C2_FailedProbeDisablesLLM ==
    (mgr.state = "ready" /\ runtime.importable /\ ProbeFails)
    => (~mgr.llm_available /\ ret.sent = 0)

\* C3: once construction has returned, no step changes llm_available, and the
\* only requests a step sends are generate requests (never list or pull).
C3_AvailabilityWrittenOnce ==
    [][mgr.state = "ready"
       => /\ mgr'.llm_available = mgr.llm_available
          /\ \A i \in (Len(calls) + 1)..Len(calls') : calls'[i] = "generate"]_vars

C3_Witness ==
    /\ ret.op = "generate_description"
    /\ ret.reply.kind = "raise"
    /\ Len(calls) = MaxCalls
    /\ mgr.llm_available

\* C4: a call on a manager whose llm_available is false returns the method's
\* fallback, and no list, pull or generate request has been sent.
C4_UnavailableSendsNothing ==
    (mgr.state = "ready" /\ ~mgr.llm_available /\ ret.op \in Methods)
    => /\ ret.sent = 0
       /\ calls = <<>>
       /\ ret.kind = "value"
       /\ ret.value = FallbackOfLastCall

C4_Witness ==
    /\ mgr.state = "ready"
    /\ ~mgr.llm_available
    /\ ret.op = "explain_analysis"
    /\ ret.kind = "value"
    /\ calls = <<>>

\* C5: construction raises exactly when require_llm is true and the runtime
\* cannot be imported, whatever listing and pulling would do; when it
\* completes without the runtime, llm_available is false.
C5_ConstructionRaises ==
    mgr.state # "none"
    => /\ (mgr.state = "raised") <=> (mgr.require_llm /\ ~runtime.importable)
       /\ (mgr.state = "ready" /\ ~runtime.importable) => ~mgr.llm_available

C5_Witness ==
    /\ mgr.state = "raised"
    /\ mgr.require_llm
    /\ ~runtime.importable

\* C6: with llm_available false, generate_description returns
\* "Dataset contains {feature_count} features of type {types}. Available
\* attributes: {columns}." with one space between the two sentences.
C6_FallbackDescriptionOneSpace ==
    (/\ ret.op = "generate_description"
     /\ ~mgr.llm_available
     /\ {"feature_count", "geometry_type", "columns"} \subseteq DOMAIN ret.input)
    => ret.value =
         <<"D", "a", "t", "a", "s", "e", "t", " ", "c", "o", "n", "t", "a", "i", "n", "s", " ">>
         \o Str(ret.input.feature_count)
         \o <<" ", "f", "e", "a", "t", "u", "r", "e", "s", " ", "o", "f", " ", "t", "y", "p", "e", " ">>
         \o Join(<<",", " ">>, ret.input.geometry_type)
         \o <<".", " ">>
         \o <<"A", "v", "a", "i", "l", "a", "b", "l", "e", " ", "a", "t", "t", "r", "i", "b", "u", "t", "e", "s", ":", " ">>
         \o Join(<<",", " ">>, ret.input.columns)
         \o <<".">>

\* C7: with llm_available false, suggest_tags returns the five fixed tags, in
\* order, for every description and every count.
C7_FallbackTagsFixed ==
    (ret.op = "suggest_tags" /\ ~mgr.llm_available)
    => ret.value = << <<"g", "i", "s">>,
                      <<"s", "p", "a", "t", "i", "a", "l", "-", "d", "a", "t", "a">>,
                      <<"g", "e", "o", "s", "p", "a", "t", "i", "a", "l">>,
                      <<"v", "e", "c", "t", "o", "r", "-", "d", "a", "t", "a">>,
                      <<"a", "n", "a", "l", "y", "s", "i", "s">> >>

C7_Witness ==
    /\ ret.op = "suggest_tags"
    /\ ~mgr.llm_available
    /\ ret.count = 2
    /\ Len(ret.value) = 5

FeatureCountLabel ==
    <<"-", " ", "F", "e", "a", "t", "u", "r", "e", " ", "C", "o", "u", "n", "t", ":", " ">>

GeometryTypesLabel ==
    <<"-", " ", "G", "e", "o", "m", "e", "t", "r", "y", " ", "T", "y", "p", "e", "s", ":", " ">>

\* C8 as stated: with llm_available false, explain_analysis of a record
\* produced by analyze_dataset returns a summary that contains the record's
\* feature count, each of its geometry types and each of its columns.
C8_ExplainEchoesAnalysisRecord ==
    (/\ ret.op = "explain_analysis"
     /\ ~mgr.llm_available
     /\ \E d \in Datasets : analyze_dataset(FileOf(d)) = [kind |-> "value", value |-> ret.input])
    => /\ Contains(ret.value, FeatureCountLabel \o Str(ret.input.feature_count))
       /\ \A i \in 1..Len(ret.input.geometry_type) :
              Contains(ret.value, ret.input.geometry_type[i])
       /\ \A i \in 1..Len(ret.input.columns) :
              Contains(ret.value, ret.input.columns[i])

\* C8 amended: with llm_available false, explain_analysis returns the summary
\* that carries the results dict's 'feature_count', each entry of its
\* 'geometry_types' and each entry of its 'attributes'; a dict without
\* 'geometry_types' (an analyze_dataset record) reads "Geometry Types: Unknown".
C8_ExplainEchoesResultKeys ==
    (ret.op = "explain_analysis" /\ ~mgr.llm_available)
    => /\ StartsWith(ret.value,
                     <<"A", "n", "a", "l", "y", "s", "i", "s", " ", "R", "e", "s", "u", "l", "t", "s", " ",
                       "S", "u", "m", "m", "a", "r", "y", ":", "\n">>)
       /\ "feature_count" \in DOMAIN ret.input
            => Contains(ret.value, FeatureCountLabel \o Str(ret.input.feature_count) \o <<"\n">>)
       /\ "geometry_types" \in DOMAIN ret.input
            => \A i \in 1..Len(ret.input.geometry_types) :
                   Contains(ret.value, ret.input.geometry_types[i])
       /\ "attributes" \in DOMAIN ret.input
            => \A i \in 1..Len(ret.input.attributes) :
                   Contains(ret.value, ret.input.attributes[i])
       /\ "geometry_types" \notin DOMAIN ret.input
            => Contains(ret.value,
                        GeometryTypesLabel \o <<"U", "n", "k", "n", "o", "w", "n", "\n">>)

C8_Witness ==
    /\ ret.op = "explain_analysis"
    /\ ~mgr.llm_available
    /\ "attributes" \in DOMAIN ret.input
    /\ Len(ret.input.attributes) = 2
    /\ Len(ret.input.geometry_types) = 2
    /\ ret.input.feature_count = 12
    /\ ret.kind = "value"

(***************************************************************************)
(* The renderer: a components dict is built item by item, as                *)
(* describe.generate_description builds it, and then rendered.             *)
(***************************************************************************)
SectionTitles ==
    { <<"o", "v", "e", "r", "v", "i", "e", "w">>,
      <<"s", "p", "a", "t", "i", "a", "l">>,
      <<"g", "e", "o", " ", "s", "t", "a", "t", "s">>,
      <<"m", "a", "ß", "e">> }

SectionContents ==
    { <<"3", " ", "p", "t", "s", ".">>,
      <<"E", "P", "S", "G", ":", "4", "3", "2", "6">> }

Formats ==
    { <<"m", "a", "r", "k", "d", "o", "w", "n">>, <<"M", "a", "r", "k", "d", "o", "w", "n">>, <<"h", "t", "m", "l">>, <<"H", "T", "M", "L">>, <<"t", "e", "x", "t">>, <<"T", "E", "X", "T">>, <<"x", "m", "l">>, <<>> }

NotRendered == [fn |-> "none", format |-> <<>>, out |-> <<>>]

SetComponent(title, content) ==
    /\ rendered = NotRendered
    /\ (Len(components) < MaxSections \/ \E i \in 1..Len(components) : components[i].title = title)
    /\ components' = SetItem(components, title, content)
    /\ UNCHANGED <<runtime, mgr, calls, ret, rendered, extVars>>

RenderMarkdown ==
    /\ rendered' = [fn |-> "format_markdown", format |-> <<>>, out |-> format_markdown(components)]
    /\ UNCHANGED <<runtime, mgr, calls, ret, components, extVars>>

RenderHtml ==
    /\ rendered' = [fn |-> "format_html", format |-> <<>>, out |-> format_html(components)]
    /\ UNCHANGED <<runtime, mgr, calls, ret, components, extVars>>

RenderText ==
    /\ rendered' = [fn |-> "format_text", format |-> <<>>, out |-> format_text(components)]
    /\ UNCHANGED <<runtime, mgr, calls, ret, components, extVars>>

RenderOutput(format) ==
    /\ rendered' = [fn |-> "format_output", format |-> format,
                    out |-> format_output(components, format)]
    /\ UNCHANGED <<runtime, mgr, calls, ret, components, extVars>>

InitText ==
    /\ runtime = [importable |-> FALSE, list |-> "ok", pull |-> "ok", models |-> {}]
    /\ mgr = NoManager
    /\ calls = <<>>
    /\ ret = NoCall
    /\ components = <<>>
    /\ rendered = NotRendered
    /\ ExtIdle

NextText ==
    \/ \E title \in SectionTitles, content \in SectionContents : SetComponent(title, content)
    \/ RenderMarkdown
    \/ RenderHtml
    \/ RenderText
    \/ \E format \in Formats : RenderOutput(format)

SpecText == InitText /\ [][NextText]_vars

(***************************************************************************)
(* Properties of the renderer.                                             *)
(***************************************************************************)
EndsWith(s, suffix) ==
    Len(s) >= Len(suffix) /\ SubSeq(s, Len(s) - Len(suffix) + 1, Len(s)) = suffix

Lines(s) == Split(s, "\n")

IsMarkdownHeading(line) == StartsWith(line, <<"#", "#", "#", " ">>)

IsHtmlHeading(line) ==
    /\ StartsWith(line, <<"<", "h", "3", ">">>)
    /\ EndsWith(line, <<"<", "/", "h", "3", ">">>)
    /\ Len(line) >= 9

IsUnderline(line) == line # <<>> /\ \A i \in 1..Len(line) : line[i] = "="

\* The section markers read back from a rendered string, in order: the text of
\* each "### " heading line, of each <h3>...</h3> line, and each line that an
\* underline of "=" follows.
MarkdownMarkers(out) ==
    LET heads == SelectSeq(Lines(out), IsMarkdownHeading)
    IN  [i \in 1..Len(heads) |-> SubSeq(heads[i], 5, Len(heads[i]))]

HtmlMarkers(out) ==
    LET heads == SelectSeq(Lines(out), IsHtmlHeading)
    IN  [i \in 1..Len(heads) |-> SubSeq(heads[i], 5, Len(heads[i]) - 5)]

TextMarkers(out) ==
    LET lines == Lines(out)
        Underlined(i) == IsUnderline(lines[i + 1])
        at == SelectSeq([i \in 1..(Len(lines) - 1) |-> i], Underlined)
    IN  [k \in 1..Len(at) |-> lines[at[k]]]

\* C9: each renderer emits exactly one section marker per section of the
\* mapping, in insertion order: the markers read back from the output are the
\* N titles (title-cased, or upper-cased for text) in the mapping's order.
C9_OneMarkerPerSectionInOrder ==
    /\ rendered.fn = "format_markdown"
         => MarkdownMarkers(rendered.out) = [i \in 1..Len(components) |-> Title(components[i].title)]
    /\ rendered.fn = "format_html"
         => HtmlMarkers(rendered.out) = [i \in 1..Len(components) |-> Title(components[i].title)]
    /\ rendered.fn = "format_text"
         => TextMarkers(rendered.out) = [i \in 1..Len(components) |-> Upper(components[i].title)]

C9_Witness ==
    /\ rendered.fn = "format_html"
    /\ Len(components) = 2
    /\ components[1].title = <<"s", "p", "a", "t", "i", "a", "l">>
    /\ components[2].title = <<"o", "v", "e", "r", "v", "i", "e", "w">>
    /\ Len(HtmlMarkers(rendered.out)) = 2

\* C10: format_output returns the markdown, html or text rendering when the
\* selector, in any letter case, is "markdown", "html" or "text", and the
\* text rendering for every other selector.
C10_SelectorCaseInsensitive ==
    rendered.fn = "format_output"
    => /\ rendered.format \in {<<"m", "a", "r", "k", "d", "o", "w", "n">>, <<"M", "a", "r", "k", "d", "o", "w", "n">>}
            => rendered.out = format_markdown(components)
       /\ rendered.format \in {<<"h", "t", "m", "l">>, <<"H", "T", "M", "L">>}
            => rendered.out = format_html(components)
       /\ rendered.format \notin {<<"m", "a", "r", "k", "d", "o", "w", "n">>, <<"M", "a", "r", "k", "d", "o", "w", "n">>, <<"h", "t", "m", "l">>, <<"H", "T", "M", "L">>}
            => rendered.out = format_text(components)

C10_Witness ==
    /\ rendered.fn = "format_output"
    /\ rendered.format = <<"H", "T", "M", "L">>
    /\ Len(components) = 2
    /\ rendered.out = format_html(components)
    /\ rendered.out # format_text(components)

(***************************************************************************)
(* The dataset inspector and the describe command: one call per run.       *)
(***************************************************************************)
DescribeFormats == { <<"m", "a", "r", "k", "d", "o", "w", "n">>, <<"H", "T", "M", "L">>, <<"t", "e", "x", "t">>, <<"p", "d", "f">> }

\* --output: not given, a path that can be written, a path that cannot.
Outputs == {"none", "writable", "unwritable"}

DescribedValue(op, input, format, include_stats, value) ==
    [op |-> op, input |-> input, format |-> format, include_stats |-> include_stats,
     kind |-> "value", value |-> value, exc |-> "none"]

DescribedRaise(op, input, format, include_stats, exc) ==
    [op |-> op, input |-> input, format |-> format, include_stats |-> include_stats,
     kind |-> "raise", value |-> <<>>, exc |-> exc]

DescribedResult(op, input, format, include_stats, r) ==
    IF r.kind = "value"
    THEN DescribedValue(op, input, format, include_stats, r.value)
    ELSE DescribedRaise(op, input, format, include_stats, r.exc)

NarrativeIdle ==
    /\ runtime = [importable |-> FALSE, list |-> "ok", pull |-> "ok", models |-> {}]
    /\ mgr = NoManager
    /\ calls = <<>>
    /\ ret = NoCall
    /\ components = <<>>
    /\ rendered = NotRendered

narrativeVars == <<runtime, mgr, calls, ret, components, rendered>>

bookVars == <<config, requests, written, files, pub>>

Idle == described = NoDescribed /\ cli = NoCli

GetCrsInfo(gdf) ==
    /\ Idle
    /\ described' = DescribedValue("get_crs_info", gdf, <<>>, FALSE, get_crs_info(gdf))
    /\ UNCHANGED <<narrativeVars, appVars, cli, bookVars>>

GetGeometryStats(gdf) ==
    /\ Idle
    /\ described' = DescribedValue("get_geometry_stats", gdf, <<>>, FALSE, get_geometry_stats(gdf))
    /\ UNCHANGED <<narrativeVars, appVars, cli, bookVars>>

NestedGetGeometryStats(gdf) ==
    /\ Idle
    /\ described' = DescribedValue("nested_get_geometry_stats", gdf, <<>>, FALSE,
                                   nested_get_geometry_stats(gdf))
    /\ UNCHANGED <<narrativeVars, appVars, cli, bookVars>>

AnalyzeDataset(file_path) ==
    /\ Idle
    /\ described' = DescribedResult("analyze_dataset", file_path, <<>>, FALSE,
                                    analyze_dataset(file_path))
    /\ UNCHANGED <<narrativeVars, appVars, cli, bookVars>>

GenerateDescription(file_path, format, include_stats) ==
    /\ Idle
    /\ described' = DescribedResult("generate_description", file_path, format, include_stats,
                                    describe_generate_description(file_path, format, include_stats))
    /\ UNCHANGED <<narrativeVars, appVars, cli, bookVars>>

\* walter/cli.py describe_data(input_file, output, format): the whole body is
\* in try / except Exception, the handler prints one "Error:" line, and the
\* function returns, so the process exits with status 0 on either path.
describe_data(input_file, output, format) ==
    /\ Idle
    /\ LET r == describe_generate_description(input_file, format, TRUE)
           exc == IF r.kind = "raise" THEN r.exc
                  ELSE IF output = "unwritable" THEN "OSError"
                  ELSE "none"
       IN  cli' = [command |-> "describe_data",
                   core |-> r.kind,
                   exc |-> exc,
                   printed |-> IF exc # "none" THEN "error"
                               ELSE IF output = "none" THEN "panel" ELSE "saved",
                   traceback |-> FALSE,
                   saved |-> (exc = "none" /\ output = "writable"),
                   exit_code |-> 0]
    /\ UNCHANGED <<narrativeVars, appVars, described, bookVars>>

\* walter/walter/cli.py describe, tag, write, sync: each command function
\* takes the name of the module it calls into, so the call in its try block
\* is an AttributeError on the function object, which the handler prints.
NestedCommands == {"describe", "tag", "write", "sync"}

nested_command(name) ==
    /\ Idle
    /\ cli' = [command |-> name, core |-> "raise", exc |-> "AttributeError",
               printed |-> "error", traceback |-> FALSE, saved |-> FALSE, exit_code |-> 0]
    /\ UNCHANGED <<narrativeVars, appVars, described, bookVars>>

InitDescribe ==
    /\ NarrativeIdle
    /\ ExtIdle

NextDescribe ==
    \/ \E gdf \in GeoFrames : GetCrsInfo(gdf)
    \/ \E gdf \in ReadableFrames : GetGeometryStats(gdf)
    \/ \E gdf \in ReadableFrames : NestedGetGeometryStats(gdf)
    \/ \E file_path \in Files : AnalyzeDataset(file_path)
    \/ \E file_path \in Files, format \in DescribeFormats, include_stats \in BOOLEAN :
           GenerateDescription(file_path, format, include_stats)
    \/ \E input_file \in Files, output \in Outputs, format \in DescribeFormats :
           describe_data(input_file, output, format)
    \/ \E name \in NestedCommands : nested_command(name)

SpecDescribe == InitDescribe /\ [][NextDescribe]_vars

(***************************************************************************)
(* Properties of the dataset inspector and the describe command.           *)
(***************************************************************************)
ZeroFeatureFile(file_path) == file_path.kind = "dataset" /\ file_path.gdf.n = 0

\* C11: a readable dataset of zero features is an error nowhere:
\* get_geometry_stats returns total_area 0 and a not-a-number mean_area, and
\* analyze_dataset and generate_description return (a record whose
\* feature_count is 0, a rendered text) instead of raising.
C11_ZeroFeatureIsNotAnError ==
    /\ (described.op = "get_geometry_stats" /\ described.input.n = 0)
          => /\ described.kind = "value"
             /\ described.value.total_area = 0
             /\ described.value.mean_area = NaN
    /\ (described.op = "analyze_dataset" /\ ZeroFeatureFile(described.input))
          => /\ described.kind = "value"
             /\ described.value.feature_count = 0
    /\ (described.op = "generate_description" /\ ZeroFeatureFile(described.input))
          => described.kind = "value"

\* C12: get_crs_info returns a string for every frame and never raises:
\* "undefined" for no CRS, the identifier itself for a plain-string CRS,
\* "AUTHORITY:CODE" for a CRS with an authority pair, and "Custom:Unknown"
\* for a CRS object whose authority lookup yields nothing.
C12_CrsInfoTotal ==
    described.op = "get_crs_info" =>
        LET crs == described.input.crs
        IN  /\ described.kind = "value"
            /\ crs.kind = "none" => described.value = <<"u", "n", "d", "e", "f", "i", "n", "e", "d">>
            /\ crs.kind = "str" => described.value = crs.text
            /\ (crs.kind = "pyproj" /\ crs.authority # <<>>)
                  => described.value = crs.authority[1] \o <<":">> \o crs.authority[2]
            /\ (crs.kind = "pyproj" /\ crs.authority = <<>>)
                  => described.value = <<"C", "u", "s", "t", "o", "m", ":", "U", "n", "k", "n", "o", "w", "n">>

C12_Witness ==
    /\ described.op = "get_crs_info"
    /\ described.input.crs.kind = "pyproj"
    /\ described.input.crs.authority = <<>>
    /\ described.value = <<"C", "u", "s", "t", "o", "m", ":", "U", "n", "k", "n", "o", "w", "n">>

\* C13: a CLI command whose core operation raises prints an error message,
\* shows no stack trace and exits with a non-zero status; the exit status is
\* zero only when the operation succeeded.
C13_FailedCommandExitsNonZero ==
    cli.command # "none" =>
        /\ cli.exc # "none" => /\ cli.printed = "error"
                               /\ ~cli.traceback
                               /\ cli.exit_code # 0
        /\ cli.exit_code = 0 => cli.exc = "none"

UnreadableFile(file_path) == file_path.kind \in {"missing", "unparseable"}

\* C18 (as stated): analyze_dataset on a missing path or an unparseable file
\* fails with a DatasetReadError and returns no record.
C18_ReadFailureIsDatasetReadError ==
    (described.op = "analyze_dataset" /\ UnreadableFile(described.input))
        => /\ described.kind = "raise"
           /\ described.exc = "DatasetReadError"

\* C18 (amended): analyze_dataset on a missing path or an unparseable file
\* fails with the exception gpd.read_file raised, unwrapped, and returns no
\* record.
C18_ReadFailureSurfacesReadError ==
    (described.op = "analyze_dataset" /\ UnreadableFile(described.input))
        => /\ described.kind = "raise"
           /\ described.exc = "DataSourceError"
           /\ described.value = <<>>

C18_Witness ==
    /\ described.op = "analyze_dataset"
    /\ described.input.kind = "missing"
    /\ described.kind = "raise"

(***************************************************************************)
(* walter/integrations/gitbook.py: GitBookAPI and GitBookPublisher, the    *)
(* publisher constructed with a token in the environment.                  *)
(***************************************************************************)
\* The configuration file at config_path: absent, an empty YAML document
\* (safe_load returns None), a mapping without default_space, a mapping with
\* it.  Space and page identifiers are opaque; "" stands for None.
Configs ==
    { NoConfigFile,
      [exists |-> TRUE, mapping |-> FALSE, default_space |-> ""],
      [exists |-> TRUE, mapping |-> TRUE, default_space |-> ""],
      [exists |-> TRUE, mapping |-> TRUE, default_space |-> "space-d"] }

\* The id the API gives the k-th page it creates.
NewIds == <<"p1", "p2", "p3", "p4", "p5", "p6", "p7", "p8", "p9", "p10", "p11", "p12">>

\* create_page(space_id, title, content): one POST; raise_for_status() raises
\* HTTPError when the API rejects it, and otherwise the response's JSON is
\* returned.  sent counts the requests already received.
create_page(space_id, title, content, rejected, sent) ==
    LET request == [method |-> "POST", space_id |-> space_id, page_id |-> "",
                    title |-> title, content |-> content, rejected |-> rejected]
    IN  IF rejected
        THEN [kind |-> "raise", exc |-> "HTTPError", value |-> <<>>, sent |-> <<request>>]
        ELSE [kind |-> "value", exc |-> "none", value |-> [id |-> NewIds[sent + 1]],
              sent |-> <<request>>]

\* update_page(space_id, page_id, content): one PATCH, the title is not sent.
update_page(space_id, page_id, content, rejected, sent) ==
    LET request == [method |-> "PATCH", space_id |-> space_id, page_id |-> page_id,
                    title |-> <<>>, content |-> content, rejected |-> rejected]
    IN  IF rejected
        THEN [kind |-> "raise", exc |-> "HTTPError", value |-> <<>>, sent |-> <<request>>]
        ELSE [kind |-> "value", exc |-> "none", value |-> [id |-> page_id],
              sent |-> <<request>>]

\* load_config(): FileNotFoundError when the file is absent.
load_config(cfg) ==
    IF ~cfg.exists
    THEN [kind |-> "raise", exc |-> "FileNotFoundError"]
    ELSE [kind |-> "value", exc |-> "none"]

\* space_id = space_id or config.get("default_space"): config.get is reached
\* only when space_id is falsy, and is an AttributeError on None.
ResolveSpace(cfg, space_id) ==
    IF space_id # ""
    THEN [kind |-> "value", exc |-> "none", space_id |-> space_id]
    ELSE IF ~cfg.mapping
    THEN [kind |-> "raise", exc |-> "AttributeError", space_id |-> ""]
    ELSE IF cfg.default_space = ""
    THEN [kind |-> "raise", exc |-> "ValueError", space_id |-> ""]
    ELSE [kind |-> "value", exc |-> "none", space_id |-> cfg.default_space]

Failed(exc) == [kind |-> "raise", exc |-> exc, value |-> <<>>, sent |-> <<>>]

\* publish_content(content, title, space_id, page_id): the configuration is
\* loaded first, then the space is resolved, then update_page when page_id is
\* given and create_page otherwise.
publish_content(cfg, content, title, space_id, page_id, rejected, sent) ==
    LET space == ResolveSpace(cfg, space_id)
    IN  IF load_config(cfg).kind = "raise" THEN Failed(load_config(cfg).exc)
        ELSE IF space.kind = "raise" THEN Failed(space.exc)
        ELSE IF page_id # ""
        THEN update_page(space.space_id, page_id, content, rejected, sent)
        ELSE create_page(space.space_id, title, content, rejected, sent)

\* md_file.stem of a file of the source directory
Stem(md_file) == SubSeq(md_file, 1, Len(md_file) - 3)

SUMMARY_MD == <<"S", "U", "M", "M", "A", "R", "Y", ".", "m", "d">>

\* title = md_file.stem.replace("-", " ").title()
PageTitle(md_file) == Title(Replace(Stem(md_file), "-", <<" ">>))

RECURSIVE SyncLoop_newest_first(_, _, _, _, _, _, _)
SyncLoop_newest_first(cfg, md_files, space_id, rejects, received, sent, published_pages) ==
    IF md_files = <<>>
    THEN [kind |-> "value", exc |-> "none", value |-> published_pages, sent |-> sent]
    ELSE LET md_file == Head(md_files)
             title == PageTitle(md_file)
             result == publish_content(cfg, md_file, title, space_id, "",
                                       md_file \in rejects, received + Len(sent))
         IN  IF md_file = SUMMARY_MD
             THEN SyncLoop_newest_first(cfg, Tail(md_files), space_id, rejects, received, sent,
                           published_pages)
             ELSE IF result.kind = "raise"
             THEN [kind |-> "raise", exc |-> result.exc, value |-> <<>>,
                   sent |-> sent \o result.sent]
             ELSE SyncLoop_newest_first(cfg, Tail(md_files), space_id, rejects, received,
                           sent \o result.sent,
                           <<[title |-> title, path |-> md_file, id |-> result.value.id]>>
                           \o published_pages)

RECURSIVE SyncLoop_skipping_failures(_, _, _, _, _, _, _)
SyncLoop_skipping_failures(cfg, md_files, space_id, rejects, received, sent, published_pages) ==
    IF md_files = <<>>
    THEN [kind |-> "value", exc |-> "none", value |-> published_pages, sent |-> sent]
    ELSE LET md_file == Head(md_files)
             title == PageTitle(md_file)
             result == publish_content(cfg, md_file, title, space_id, "",
                                       md_file \in rejects, received + Len(sent))
         IN  IF md_file = SUMMARY_MD
             THEN SyncLoop_skipping_failures(cfg, Tail(md_files), space_id, rejects, received, sent,
                           published_pages)
             ELSE IF result.kind = "raise"
             THEN SyncLoop_skipping_failures(cfg, Tail(md_files), space_id, rejects, received,
                                             sent \o result.sent, published_pages)
             ELSE SyncLoop_skipping_failures(cfg, Tail(md_files), space_id, rejects, received,
                           sent \o result.sent,
                           Append(published_pages,
                                  [title |-> title, path |-> md_file, id |-> result.value.id]))

RECURSIVE SyncLoop_publishing_summary(_, _, _, _, _, _, _)
SyncLoop_publishing_summary(cfg, md_files, space_id, rejects, received, sent, published_pages) ==
    IF md_files = <<>>
    THEN [kind |-> "value", exc |-> "none", value |-> published_pages, sent |-> sent]
    ELSE LET md_file == Head(md_files)
             title == PageTitle(md_file)
             result == publish_content(cfg, md_file, title, space_id, "",
                                       md_file \in rejects, received + Len(sent))
         IN  IF FALSE
             THEN SyncLoop_publishing_summary(cfg, Tail(md_files), space_id, rejects, received, sent,
                           published_pages)
             ELSE IF result.kind = "raise"
             THEN [kind |-> "raise", exc |-> result.exc, value |-> <<>>,
                   sent |-> sent \o result.sent]
             ELSE SyncLoop_publishing_summary(cfg, Tail(md_files), space_id, rejects, received,
                           sent \o result.sent,
                           Append(published_pages,
                                  [title |-> title, path |-> md_file, id |-> result.value.id]))

RECURSIVE SyncLoop(_, _, _, _, _, _, _)
\* The for loop of sync_directory over the globbed files: SUMMARY.md is
\* skipped, each other file is published with no page_id, and an exception of
\* publish_content leaves the loop and the function.  received counts the
\* requests the API had received before the call, sent holds those of the call.
SyncLoop(cfg, md_files, space_id, rejects, received, sent, published_pages) ==
    IF md_files = <<>>
    THEN [kind |-> "value", exc |-> "none", value |-> published_pages, sent |-> sent]
    ELSE LET md_file == Head(md_files)
             title == PageTitle(md_file)
             result == publish_content(cfg, md_file, title, space_id, "",
                                       md_file \in rejects, received + Len(sent))
         IN  IF md_file = SUMMARY_MD
             THEN SyncLoop(cfg, Tail(md_files), space_id, rejects, received, sent,
                           published_pages)
             ELSE IF result.kind = "raise"
             THEN [kind |-> "raise", exc |-> result.exc, value |-> <<>>,
                   sent |-> sent \o result.sent]
             ELSE SyncLoop(cfg, Tail(md_files), space_id, rejects, received,
                           sent \o result.sent,
                           Append(published_pages,
                                  [title |-> title, path |-> md_file, id |-> result.value.id]))

sync_directory_unchecked(cfg, source_dir, space_id, rejects, received) ==
    LET space == ResolveSpace(cfg, space_id)
    IN  IF load_config(cfg).kind = "raise" THEN Failed(load_config(cfg).exc)
        ELSE IF space.kind = "raise" /\ space.exc # "ValueError" THEN Failed(space.exc)
        ELSE SyncLoop(cfg, source_dir, space.space_id, rejects, received, <<>>, <<>>)

\* sync_directory(source_dir, space_id): configuration and space as in
\* publish_content, then the loop; the caller gets published_pages.
sync_directory(cfg, source_dir, space_id, rejects, received) ==
    LET space == ResolveSpace(cfg, space_id)
    IN  IF load_config(cfg).kind = "raise" THEN Failed(load_config(cfg).exc)
        ELSE IF space.kind = "raise" THEN Failed(space.exc)
        ELSE SyncLoop(cfg, source_dir, space.space_id, rejects, received, <<>>, <<>>)

(***************************************************************************)
(* The publisher: one call per run against a configuration file.           *)
(***************************************************************************)
Spaces == {"", "space-x"}

PageIds == {"", "p0"}

Contents == { <<"#", " ", "U", "S", " ", "M", "a", "j", "o", "r", " ", "C", "i", "t", "i", "e", "s">> }

PublishTitles == { <<"C", "i", "t", "i", "e", "s">>, <<"F", "i", "e", "l", "d", " ", "L", "o", "g">> }

\* The markdown files source_dir.glob("**/*.md") yields, in the order it
\* yields them.
MdFiles == { <<"s", "i", "t", "e", "-", "n", "o", "t", "e", "s", ".", "m", "d">>, <<"f", "i", "e", "l", "d", "_", "l", "o", "g", ".", "m", "d">>, <<"i", "n", "t", "r", "o", ".", "m", "d">>, SUMMARY_MD }

SourceDirs ==
    { <<>>,
      << SUMMARY_MD >>,
      << <<"i", "n", "t", "r", "o", ".", "m", "d">> >>,
      << <<"s", "i", "t", "e", "-", "n", "o", "t", "e", "s", ".", "m", "d">>, SUMMARY_MD, <<"f", "i", "e", "l", "d", "_", "l", "o", "g", ".", "m", "d">> >>,
      << <<"i", "n", "t", "r", "o", ".", "m", "d">>, <<"s", "i", "t", "e", "-", "n", "o", "t", "e", "s", ".", "m", "d">>, <<"f", "i", "e", "l", "d", "_", "l", "o", "g", ".", "m", "d">> >> }

\* The sets of files whose request the API rejects during one call.
Rejects ==
    {{}} \cup {{md_file} : md_file \in MdFiles \ {SUMMARY_MD}}
    \cup {{<<"i", "n", "t", "r", "o", ".", "m", "d">>, <<"f", "i", "e", "l", "d", "_", "l", "o", "g", ".", "m", "d">>}}

PubResult(op, arg_space, page_id, source_dir, rejects, r, wrote) ==
    [op |-> op, n |-> pub.n + 1, arg_space |-> arg_space, page_id |-> page_id,
     source_dir |-> source_dir, rejects |-> rejects, kind |-> r.kind, exc |-> r.exc,
     value |-> r.value, sent |-> r.sent, wrote |-> wrote]

PublishContent(content, title, space_id, page_id, rejected) ==
    /\ pub.n < MaxPublishes
    /\ LET r == publish_content(config, content, title, space_id, page_id, rejected,
                                Len(requests))
       IN  /\ requests' = requests \o r.sent
           /\ pub' = PubResult("publish_content", space_id, page_id, <<>>,
                               IF rejected THEN {content} ELSE {}, r, FALSE)
    /\ UNCHANGED <<narrativeVars, appVars, described, cli, config, written, files>>

\* create_summary(pages): the index rendered from the published pages by the
\* template gitbook_summary.md.j2; it lists the pages it is given, in order.
create_summary(pages) == pages

\* sync_directory on the source directory as it stands.  After the loop the
\* summary of the published pages is written to SUMMARY.md in the source
\* directory, over the one a sync before it wrote, and a later glob yields
\* that file with the others.
SyncDirectory(space_id, rejects) ==
    /\ pub.n < MaxPublishes
    /\ LET r == sync_directory(config, files, space_id, rejects, Len(requests))
       IN  /\ requests' = requests \o r.sent
           /\ written' = IF r.kind = "value"
                         THEN {[path |-> SUMMARY_MD, content |-> create_summary(r.value)]}
                         ELSE written
           /\ files' = IF r.kind = "value" /\ \A i \in 1..Len(files) : files[i] # SUMMARY_MD
                       THEN Append(files, SUMMARY_MD)
                       ELSE files
           /\ pub' = PubResult("sync_directory", space_id, "", files, rejects, r,
                               r.kind = "value")
    /\ UNCHANGED <<narrativeVars, appVars, described, cli, config>>

InitBook ==
    /\ NarrativeIdle
    /\ described = NoDescribed
    /\ cli = NoCli
    /\ config \in Configs
    /\ requests = <<>>
    /\ written = {}
    /\ files \in SourceDirs
    /\ pub = NoPub
    /\ AppIdle

NextBook ==
    \/ \E content \in Contents, title \in PublishTitles, space_id \in Spaces,
          page_id \in PageIds, rejected \in BOOLEAN :
           PublishContent(content, title, space_id, page_id, rejected)
    \/ \E space_id \in Spaces, rejects \in Rejects : SyncDirectory(space_id, rejects)

SpecBook == InitBook /\ [][NextBook]_vars

(***************************************************************************)
(* Properties of the publisher.                                            *)
(***************************************************************************)
\* The call failed while loading the configuration or resolving the space.
ConfigFailure == pub.kind = "raise" /\ pub.exc \in {"FileNotFoundError", "AttributeError", "ValueError"}

SentTo(space_id) == \A i \in 1..Len(pub.sent) : pub.sent[i].space_id = space_id

HasDefaultSpace(cfg) == cfg.exists /\ cfg.mapping /\ cfg.default_space # ""

IsPage(md_file) == md_file # SUMMARY_MD

\* C14: the destination is the explicit space_id when one is given and the
\* configuration's default_space otherwise; an explicit space_id is enough by
\* itself, whether or not a configuration file exists.
C14_ExplicitSpaceIsEnough ==
    pub.op # "none" =>
        /\ pub.arg_space # ""
              => /\ ~ConfigFailure
                 /\ SentTo(pub.arg_space)
                 /\ pub.op = "publish_content" => Len(pub.sent) = 1
        /\ (pub.arg_space = "" /\ HasDefaultSpace(config))
              => /\ ~ConfigFailure
                 /\ SentTo(config.default_space)
                 /\ pub.op = "publish_content" => Len(pub.sent) = 1

\* C15: with no space_id argument and no default_space in the configuration,
\* publish_content and sync_directory fail with an error that reaches the
\* caller, before any request is sent and before any file is written.
C15_NoSpaceFailsBeforeAnyRequest ==
    (pub.op # "none" /\ pub.arg_space = "" /\ ~HasDefaultSpace(config))
        => /\ pub.kind = "raise"
           /\ pub.sent = <<>>
           /\ ~pub.wrote

C15_Witness ==
    /\ pub.op = "sync_directory"
    /\ pub.arg_space = ""
    /\ config.exists /\ config.mapping /\ config.default_space = ""
    /\ pub.source_dir = <<>>
    /\ pub.exc = "ValueError"

\* C16: when the API rejects one file of a sync_directory batch, the other
\* files are still published and the caller receives the per-file report.
C16_RejectedFileDoesNotAbortBatch ==
    (/\ pub.op = "sync_directory"
     /\ ~ConfigFailure
     /\ \E i \in 1..Len(pub.source_dir) :
            IsPage(pub.source_dir[i]) /\ pub.source_dir[i] \in pub.rejects)
        => /\ pub.kind = "value"
           /\ \A i \in 1..Len(pub.source_dir) :
                  IsPage(pub.source_dir[i])
                      => \E k \in 1..Len(pub.sent) : pub.sent[k].content = pub.source_dir[i]

\* C17: the title sync_directory publishes a file under is the file stem with
\* every hyphen and every underscore turned into a space, title-cased, so it
\* holds no hyphen and no underscore.
C17_TitleHasNoHyphenOrUnderscore ==
    pub.op = "sync_directory" =>
        \A k \in 1..Len(pub.sent) :
            LET title == pub.sent[k].title
                stem == Stem(pub.sent[k].content)
            IN  /\ title = Title(Replace(Replace(stem, "-", <<" ">>), "_", <<" ">>))
                /\ \A i \in 1..Len(title) : title[i] \notin {"-", "_"}

(***************************************************************************)
(* Properties of the narrative generator: the probe and the tag cleanup.   *)
(***************************************************************************)
\* C19: a manager constructed with an importable runtime has probed it before
\* llm_available became true: the first request is a model listing, a pull
\* follows only a listing, and the configured model is then among the
\* runtime's models (it was listed, or it was pulled because it was not).
C19_ConstructionProbes ==
    (mgr.state = "ready" /\ runtime.importable /\ mgr.llm_available)
    => /\ Len(calls) >= 1
       /\ calls[1] = "list"
       /\ \A i \in 1..Len(calls) : calls[i] = "pull" => i = 2
       /\ mgr.model \in runtime.models

\* The cleaned pieces of the one response text of ReplyTexts.
UrbanPlanTags ==
    << <<"u", "r", "b", "a", "n", "-", "p", "l", "a", "n">>, <<"g", "i", "s">>, <<"g", "i", "s">>, <<"g", "i", "s", ".">> >>

\* C20: on the LLM path suggest_tags returns the first count pieces of the
\* response split on commas, in order, each trimmed, lower-cased and with its
\* spaces turned into hyphens; no piece is dropped as a duplicate.
C20_TagsCleanedInOrder ==
    (ret.op = "suggest_tags" /\ ret.sent = 1 /\ ret.reply.kind = "ok")
    => LET pieces == Split(ret.reply.text, ",")
           n == IF ret.count < Len(pieces) THEN ret.count ELSE Len(pieces)
       IN  /\ ret.kind = "value"
           /\ Len(ret.value) = n
           /\ \A i \in 1..n : ret.value[i] = Replace(Lower(Strip(pieces[i])), " ", <<"-">>)
           /\ ret.reply.text = <<" ", "U", "r", "b", "a", "n", " ", "P", "l", "a", "n", ",", " ", "g", "i", "s", " ", ",", "g", "i", "s", ",", " ", "G", "I", "S", ".", " ", "\n">>
                 => ret.value = SubSeq(UrbanPlanTags, 1, n)

C20_Witness ==
    /\ ret.op = "suggest_tags"
    /\ ret.sent = 1
    /\ ret.reply.kind = "ok"
    /\ ret.count = 5
    /\ Len(ret.value) = 4
    /\ ret.value[2] = ret.value[3]

(***************************************************************************)
(* Properties of the renderer and of the tag list, continued.              *)
(***************************************************************************)
\* C22: for every section format_text emits the key upper-cased as the title
\* line, then a line of '=' only whose length is the length of that title
\* line, then the body.
C22_UnderlineMatchesTitleLine ==
    rendered.fn = "format_text" =>
        LET lines == Lines(rendered.out)
        IN  \A i \in 1..Len(components) :
                LET title_line == lines[4 * (i - 1) + 1]
                    underline == lines[4 * (i - 1) + 2]
                    body == lines[4 * (i - 1) + 3]
                IN  /\ title_line = Upper(components[i].title)
                    /\ IsUnderline(underline)
                    /\ Len(underline) = Len(title_line)
                    /\ body = components[i].content

\* C25 (as stated): on every path suggest_tags(description, count) returns at
\* most count tags.
C25_AtMostCountTags ==
    (ret.op = "suggest_tags" /\ ret.kind = "value") => Len(ret.value) <= ret.count

\* C25 (amended): suggest_tags returns at most count tags when the backend's
\* response was parsed; when the backend is unavailable or the call fails it
\* returns the five fixed tags whatever count is.
C25_AtMostCountOnLLMPath ==
    (ret.op = "suggest_tags" /\ ret.kind = "value")
    => /\ (ret.sent = 1 /\ TryError(ret.reply) = "none") => Len(ret.value) <= ret.count
       /\ (ret.sent = 0 \/ TryError(ret.reply) # "none") => Len(ret.value) = 5

C25_Witness ==
    /\ ret.op = "suggest_tags"
    /\ ret.sent = 1
    /\ ret.reply.kind = "ok"
    /\ ret.count = 2
    /\ Len(ret.value) = 2

(***************************************************************************)
(* Properties of the dataset inspector, continued.                         *)
(***************************************************************************)
\* C23: get_geometry_stats reports area_unit "square meters" exactly when the
\* frame has a geographic CRS, and then measures the areas after the
\* reprojection to a metric planar CRS; in every other case, a frame of no
\* CRS included, it measures the frame as given and reports "square units".
C23_AreaUnitFollowsCrs ==
    described.op \in {"get_geometry_stats", "nested_get_geometry_stats"} =>
        LET gdf == described.input
            stats == described.value
            geographic == gdf.crs.kind = "pyproj" /\ gdf.crs.is_geographic
        IN  /\ "area_unit" \in DOMAIN stats
            /\ geographic
                  => /\ stats.area_unit = <<"s", "q", "u", "a", "r", "e", " ", "m", "e", "t", "e", "r", "s">>
                     /\ stats.total_area = Sum(gdf.area_3857)
                     /\ stats.mean_area = Mean(gdf.area_3857)
            /\ ~geographic
                  => /\ stats.area_unit = <<"s", "q", "u", "a", "r", "e", " ", "u", "n", "i", "t", "s">>
                     /\ stats.total_area = Sum(gdf.area)
                     /\ stats.mean_area = Mean(gdf.area)

(***************************************************************************)
(* Properties of the publisher, continued.                                 *)
(***************************************************************************)
PagesOf(source_dir) == SelectSeq(source_dir, IsPage)

\* The step is a call of sync_directory.
SyncStep == pub'.n = pub.n + 1 /\ pub'.op = "sync_directory"

C26_FailedSyncLeavesPagesAndSummary ==
    [][(/\ SyncStep
        /\ pub'.exc \notin {"FileNotFoundError", "AttributeError", "ValueError"}
        /\ \E i \in 1..Len(files) : IsPage(files[i]) /\ files[i] \in pub'.rejects)
       => LET pages == PagesOf(files)
              at == CHOOSE i \in 1..Len(pages) :
                        /\ pages[i] \in pub'.rejects
                        /\ \A j \in 1..(i - 1) : pages[j] \notin pub'.rejects
          IN  /\ pub'.kind = "raise"
              /\ pub'.exc = "HTTPError"
              /\ pub'.value = <<>>
              /\ ~pub'.wrote
              /\ written' = written
              /\ files' = files
              /\ requests' = requests \o pub'.sent
              /\ Len(pub'.sent) = at
              /\ \A i \in 1..at :
                     /\ pub'.sent[i].method = "POST"
                     /\ pub'.sent[i].content = pages[i]
                     /\ pub'.sent[i].rejected = (i = at)]_vars

C26_Witness ==
    /\ pub.op = "sync_directory"
    /\ pub.exc = "HTTPError"
    /\ Len(pub.sent) = 2
    /\ written # {}
    /\ Len(requests) > 2

\* C27: sync_directory only creates pages: every request of a sync is a POST
\* without a page id and none publishes SUMMARY.md; a sync that returns sends
\* one request per markdown file other than SUMMARY.md and leaves those files
\* as they were, so K syncs of a directory of M such files send K * M create
\* requests.
C27_SyncOnlyCreates ==
    [][SyncStep
       => /\ \A i \in 1..Len(pub'.sent) :
                 /\ pub'.sent[i].method = "POST"
                 /\ pub'.sent[i].page_id = ""
                 /\ pub'.sent[i].content # SUMMARY_MD
          /\ requests' = requests \o pub'.sent
          /\ PagesOf(files') = PagesOf(files)
          /\ pub'.kind = "value" => Len(pub'.sent) = Len(PagesOf(files))]_vars

C27_Witness ==
    /\ pub.op = "sync_directory"
    /\ pub.kind = "value"
    /\ pub.n = 2
    /\ Len(PagesOf(pub.source_dir)) = 3
    /\ Len(pub.source_dir) = 4
    /\ Len(requests) = 6
    /\ \A i \in 1..6 : requests[i].method = "POST"

(***************************************************************************)
(* The dashboard (gui.py): Streamlit runs main() from top to bottom on     *)
(* every interaction, with st.session_state and the content of the         *)
(* uploader kept between the runs.                                         *)
(***************************************************************************)

\* init_session_state(): sets the keys that are absent.
init_session_state(s) ==
    IF s.initialised THEN s
    ELSE [initialised |-> TRUE, current_file |-> <<>>, current_data |-> <<>>]

\* The file a path names on a disk: what was written there, or a missing file.
PathFile(disk, path) ==
    IF \E t \in disk : t.id = path
    THEN (CHOOSE t \in disk : t.id = path).file
    ELSE CHOOSE f \in Files : f.kind = "missing"

\* render_file_upload(): with a file in the uploader, its bytes go to a fresh
\* temporary file tmp_path (delete=False), gpd.read_file(tmp_path) is stored
\* in the session together with tmp_path, a failed read is reported, and the
\* finally block unlinks tmp_path on either path.
render_file_upload(s, disk, uploaded, tmp_path) ==
    IF uploaded = <<>>
    THEN [session |-> s, tmp_files |-> disk, loaded |-> "none"]
    ELSE LET saved == disk \cup {[id |-> tmp_path, file |-> uploaded[1]]}
             r == read_file(PathFile(saved, tmp_path))
         IN  [session |-> IF r.kind = "value"
                          THEN [s EXCEPT !.current_file = <<tmp_path>>,
                                         !.current_data = <<r.value>>]
                          ELSE s,
              tmp_files |-> {t \in saved : t.id # tmp_path},
              loaded |-> IF r.kind = "value" THEN "ok" ELSE "error"]

Buttons == {"Generate Description", "Suggest Tags", "Validate Geometry"}

\* render_analysis(): nothing without current_data.  "Generate Description"
\* and "Suggest Tags" call analyze_dataset(current_file), and "Suggest Tags"
\* then generate_description(current_file); neither call is in a try block.
\* "Validate Geometry" works on current_data and reads no file.
render_analysis(s, disk, button) ==
    IF s.current_data = <<>> \/ button = "none"
    THEN NoAnalysis
    ELSE IF button = "Validate Geometry"
    THEN [button |-> button, read |-> FALSE, existed |-> FALSE, kind |-> "value",
          exc |-> "none"]
    ELSE LET path == s.current_file[1]
             f == PathFile(disk, path)
             data == analyze_dataset(f)
             r == IF button = "Suggest Tags" /\ data.kind = "value"
                  THEN describe_generate_description(f, <<"m", "a", "r", "k", "d", "o", "w", "n">>, TRUE)
                  ELSE data
         IN  [button |-> button, read |-> TRUE,
              existed |-> \E t \in disk : t.id = path,
              kind |-> r.kind,
              exc |-> IF r.kind = "raise" THEN r.exc ELSE "none"]

\* main(): one run of the script, with the uploader holding uploaded and at
\* most one button pressed.  The temporary file of a run has a name no
\* earlier run used.
main(uploaded, button) ==
    /\ page.runs < MaxRuns
    /\ LET up == render_file_upload(init_session_state(session), tmp_files, uploaded,
                                    page.runs + 1)
       IN  /\ session' = up.session
           /\ tmp_files' = up.tmp_files
           /\ page' = [runs |-> page.runs + 1, uploaded |-> uploaded, loaded |-> up.loaded,
                       analysis |-> render_analysis(up.session, up.tmp_files, button)]
    /\ UNCHANGED <<narrativeVars, described, cli, bookVars, caller_tags, portal>>

\* What a user puts into the uploader: a dataset of at least one feature as
\* geopandas reads it, or a file it cannot parse.
GuiUploads ==
    {FileOf(gdf) : gdf \in {g \in ReadableFrames : g.n # 0}}
    \cup {f \in Files : f.kind = "unparseable"}

OpenDashboard == page.runs = 0 /\ main(<<>>, "none")

UploadFile(f) == page.runs > 0 /\ main(<<f>>, "none")

RemoveFile == page.runs > 0 /\ page.uploaded # <<>> /\ main(<<>>, "none")

\* The analysis buttons are on the page when the last run found current_data.
ClickGenerateDescription ==
    page.runs > 0 /\ session.current_data # <<>> /\ main(page.uploaded, "Generate Description")

ClickSuggestTags ==
    page.runs > 0 /\ session.current_data # <<>> /\ main(page.uploaded, "Suggest Tags")

ClickValidateGeometry ==
    page.runs > 0 /\ session.current_data # <<>> /\ main(page.uploaded, "Validate Geometry")

InitGui ==
    /\ NarrativeIdle
    /\ ExtIdle

NextGui ==
    \/ OpenDashboard
    \/ \E f \in GuiUploads : UploadFile(f)
    \/ RemoveFile
    \/ ClickGenerateDescription
    \/ ClickSuggestTags
    \/ ClickValidateGeometry

SpecGui == InitGui /\ [][NextGui]_vars

\* C24: once render_file_upload has loaded a file, the path in current_file
\* names a file that exists, and every read of the dataset from that path by
\* "Generate Description" or "Suggest Tags" finds the file there.
C24_CurrentFileOutlivesUpload ==
    /\ session.current_file # <<>> =>
           \E t \in tmp_files : t.id = session.current_file[1]
    /\ page.analysis.read => page.analysis.existed

(***************************************************************************)
(* The ArcGIS Online uploader (agol.py): a constructed AGOLManager and a   *)
(* caller that holds one tags list and uploads files with it.              *)
(***************************************************************************)
\* The index of the last "." of a file name, 0 without one.
LastDot(name) ==
    LET dots == {i \in 1..Len(name) : name[i] = "."}
    IN  IF dots = {} THEN 0 ELSE CHOOSE i \in dots : \A j \in dots : j <= i

\* file_path.suffix and file_path.stem: a leading dot starts no suffix.
PathSuffix(name) ==
    IF LastDot(name) <= 1 THEN <<>> ELSE SubSeq(name, LastDot(name), Len(name))

PathStem(name) ==
    IF LastDot(name) <= 1 THEN name ELSE SubSeq(name, 1, LastDot(name) - 1)

extension_map ==
    (<<".", "s", "h", "p">> :> <<"S", "h", "a", "p", "e", "f", "i", "l", "e">>) @@ (<<".", "g", "e", "o", "j", "s", "o", "n">> :> <<"G", "e", "o", "J", "s", "o", "n">>) @@ (<<".", "c", "s", "v">> :> <<"C", "S", "V">>)
    @@ (<<".", "z", "i", "p">> :> <<"S", "h", "a", "p", "e", "f", "i", "l", "e">>) @@ (<<".", "g", "p", "k", "g">> :> <<"G", "e", "o", "P", "a", "c", "k", "a", "g", "e">>)

_get_content_type(file_path) == Get(extension_map, Lower(PathSuffix(file_path)), <<"F", "i", "l", "e">>)

\* A tags argument: None, or a list object.  The caller's list is the object
\* handed over, so what upload_data does to it in place the caller sees.
NoneTags == [is_none |-> TRUE, items |-> <<>>]

ListTags(items) == [is_none |-> FALSE, items |-> items]

\* upload_data(file_path, title, tags, description): "tags or []" is the
\* argument itself when it is a non-empty list and a new list otherwise, and
\* extend appends the two fixed tags to that object in place.  title and
\* description are <<>> for None.  after is the argument object when the
\* call is over; the exception of a rejected content.add reaches the caller.
upload_data(file_path, title, tags, description, rejected) ==
    LET content_type == _get_content_type(file_path)
        the_title == IF title # <<>> THEN title ELSE PathStem(file_path)
        same_object == ~tags.is_none /\ tags.items # <<>>
        extended == (IF same_object THEN tags.items ELSE <<>>)
                    \o << <<"w", "a", "l", "t", "e", "r">>, <<"a", "u", "t", "o", "m", "a", "t", "e", "d", "-", "u", "p", "l", "o", "a", "d">> >>
        properties == [title |-> the_title,
                       type |-> content_type,
                       tags |-> Join(<<",">>, extended),
                       description |-> IF description # <<>> THEN description
                                       ELSE <<"U", "p", "l", "o", "a", "d", "e", "d", " ", "b", "y", " ", "W", "a", "l", "t", "e", "r", ":", " ">> \o the_title]
    IN  [kind |-> IF rejected THEN "raise" ELSE "value",
         after |-> IF same_object THEN extended ELSE tags.items,
         request |-> properties]

UploadPaths == { <<"r", "o", "a", "d", "s", ".", "g", "e", "o", "j", "s", "o", "n">>, <<"s", "i", "t", "e", "s", ".", "C", "S", "V">>, <<"n", "o", "t", "e", "s">> }

UploadTitles == { <<>>, <<"R", "o", "a", "d", "s">> }

UploadDescriptions == { <<>>, <<"R", "o", "a", "d", " ", "n", "e", "t", "w", "o", "r", "k">> }

\* The lists a caller builds before the first upload.
CallerTagLists == { <<>>, << <<"r", "o", "a", "d", "s">> >>, << <<"r", "o", "a", "d", "s">>, <<"t", "r", "a", "n", "s", "p", "o", "r", "t">> >> }

\* One upload_data call: with the caller's list as tags, or with no tags.
UploadData(file_path, title, with_tags, description, rejected) ==
    /\ Len(portal) < MaxUploads
    /\ LET r == upload_data(file_path, title,
                            IF with_tags THEN ListTags(caller_tags) ELSE NoneTags,
                            description, rejected)
       IN  /\ caller_tags' = IF with_tags THEN r.after ELSE caller_tags
           /\ portal' = Append(portal, [kind |-> r.kind, with_tags |-> with_tags,
                                        request |-> r.request])
    /\ UNCHANGED <<narrativeVars, described, cli, bookVars, session, tmp_files, page>>

InitAgol ==
    /\ NarrativeIdle
    /\ described = NoDescribed
    /\ cli = NoCli
    /\ config = NoConfigFile
    /\ requests = <<>>
    /\ written = {}
    /\ files = <<>>
    /\ pub = NoPub
    /\ session = NoSession
    /\ tmp_files = {}
    /\ page = NoPage
    /\ caller_tags \in CallerTagLists
    /\ portal = <<>>

NextAgol ==
    \E file_path \in UploadPaths, title \in UploadTitles, with_tags \in BOOLEAN,
       description \in UploadDescriptions, rejected \in BOOLEAN :
        UploadData(file_path, title, with_tags, description, rejected)

SpecAgol == InitAgol /\ [][NextAgol]_vars

\* The number of the comma-separated tags of a tag string that equal tag.
TagCount(tag_string, tag) ==
    Cardinality({i \in DOMAIN Split(tag_string, ",") : Split(tag_string, ",")[i] = tag})

\* C28: no upload_data call changes the caller's tags list, and the tag
\* string each call sends holds "walter" and "automated-upload" once each.
C28_CallerTagsUnchanged ==
    [][/\ caller_tags' = caller_tags
       /\ LET sent == portal'[Len(portal')].request.tags
          IN  /\ TagCount(sent, <<"w", "a", "l", "t", "e", "r">>) = 1
              /\ TagCount(sent, <<"a", "u", "t", "o", "m", "a", "t", "e", "d", "-", "u", "p", "l", "o", "a", "d">>) = 1]_vars

====
